---- MODULE Spec2Model ----
(***************************************************************************)
(* NSW Rural Fire Service feed platform:                                   *)
(* homeassistant/components/geo_location/nsw_rural_fire_service_feed.py    *)
(*                                                                         *)
(* The model follows NswRuralFireServiceFeedManager statement by           *)
(* statement: startup(), _init_regular_updates(), _update() and the three  *)
(* loops _remove_entities(), _update_entities(), _generate_new_entities(). *)
(* Every dispatcher_send(), every entity construction and every call of    *)
(* add_entities() of the running cycle is appended to `log`, in program    *)
(* order.  Cycles are serialized: a tick starts _update() only when no     *)
(* cycle is in progress.                                                   *)
(***************************************************************************)
EXTENDS FiniteSets, Integers, Sequences, TLC

(* ----------------------------- bounds ---------------------------------- *)
\* number of distinct external ids the feed can report
MaxId == 3
\* number of distinct contents the feed can report for one external id
MaxRev == 2
\* number of consumers constructed over the life of the manager
MaxEnt == 2
\* number of signals still undispatched when a new cycle may start
MaxPending == 1

Ids == 1 .. MaxId
Revs == 1 .. MaxRev

(* ------------------------- collaborators ------------------------------- *)
\* geojson_client status codes, as compared in _update
UPDATE_OK == "OK"
UPDATE_OK_NO_DATA == "OK_NO_DATA"
UPDATE_ERROR == "ERROR"
\* the call self._feed.update() did not return: it raised
RAISED == "RAISED"

\* marks "no value": the None of Python
None == [external_id |-> 0, rev |-> 0]
NoId == 0

\* one entry of the feed: its external_id and its content (title,
\* coordinates, category, ... taken together as one revision number)
FeedEntry == [external_id : Ids, rev : Revs]

\* the collections self._feed.update() can return with UPDATE_OK: any
\* finite collection of entries, the empty one included, external ids
\* unique within one collection
FetchResults ==
    {S \in SUBSET FeedEntry :
        \A a, b \in S : a.external_id = b.external_id => a = b}

\* the empty dict of __init__
EmptyDict == [i \in {} |-> None]

\* {entry.external_id: entry for entry in feed_entries}
DictComprehension(entries) ==
    [i \in {e.external_id : e \in entries} |->
        CHOOSE e \in entries : e.external_id = i]

\* set(self.feed_entries): the keys of the dict
KeySet(d) == DOMAIN d

\* self._feed_manager.feed_entries.get(external_id)
Get(d, i) == IF i \in DOMAIN d THEN d[i] ELSE None

\* the per-identifier channels
SIGNAL_DELETE_ENTITY(i) == [kind |-> "delete", id |-> i]
SIGNAL_UPDATE_ENTITY(i) == [kind |-> "update", id |-> i]

\* dispatcher_send(hass, signal): fire and forget; the emission is recorded
dispatcher_send(l, signal) == Append(l, signal)

\* NswRuralFireServiceLocationEvent(self, external_id): a new consumer,
\* all attributes None
NewEntity(i) == [external_id |-> i, rev |-> 0]

\* variant: the update loop runs before the remove loop
UpdateSeq_UpdateFirst(stmt) ==
    CASE stmt = "assign" -> "update"
      [] stmt = "update" -> "remove"
      [] stmt = "remove" -> "create"
      [] stmt = "create" -> "return"

\* order of the statements of the UPDATE_OK branch of _update
UpdateSeq(stmt) ==
    CASE stmt = "assign" -> "remove"
      [] stmt = "remove" -> "update"
      [] stmt = "update" -> "create"
      [] stmt = "create" -> "return"

(* ------------------------------ state ---------------------------------- *)
VARIABLES
    feed_entries,           \* self.feed_entries
    _managed_external_ids,  \* self._managed_external_ids
    armed,                  \* track_time_interval has been called
    pc,                     \* position of the manager in its code
    caller,                 \* who called _update: "startup" or "tick"
    status,                 \* _update: local status
    fetched,                \* _update: local feed_entries
    feed_external_ids,      \* _update: local feed_external_ids
    todo,                   \* ids the running for-loop has still to visit
    external_id,            \* loop variable of _remove_entities
    ret,                    \* statement _remove_entities returns to
    new_entities,           \* _generate_new_entities: local new_entities
    log,                    \* emissions of the running cycle, in order
    registered,             \* add_entities calls of the running cycle
    args,                   \* calls of the three loops, with their id sets
    T0,                     \* _managed_external_ids when the cycle began
    R0,                     \* feed_entries when the cycle began
    last,                   \* status and id set of the previous cycle
    escaped,                \* the cycle propagated an exception
    running,                \* invocations of _update begun and not ended
    replayed,               \* a loop of the running cycle was run again
    entities,               \* every consumer constructed so far
    bus,                    \* signals sent and not yet dispatched
    delivered               \* handler calls of the latest dispatch

state == <<feed_entries, _managed_external_ids, armed>>
locals == <<status, fetched, feed_external_ids, todo, external_id, ret,
            new_entities>>
hist == <<log, registered, args, T0, R0, last, escaped>>
sink == <<entities, bus, delivered>>
vars == <<feed_entries, _managed_external_ids, armed, pc, caller,
          status, fetched, feed_external_ids, todo, external_id, ret,
          new_entities, log, registered, args, T0, R0, last, escaped,
          running, replayed, entities, bus, delivered>>

\* __init__
Init ==
    /\ feed_entries = EmptyDict
    /\ _managed_external_ids = {}
    /\ armed = FALSE
    /\ pc = "init"
    /\ caller = "none"
    /\ status = "none"
    /\ fetched = {}
    /\ feed_external_ids = {}
    /\ todo = {}
    /\ external_id = NoId
    /\ ret = "none"
    /\ new_entities = <<>>
    /\ log = <<>>
    /\ registered = <<>>
    /\ args = <<>>
    /\ T0 = {}
    /\ R0 = EmptyDict
    /\ last = [status |-> "none", ids |-> {}]
    /\ escaped = FALSE
    /\ running = 0
    /\ replayed = FALSE
    /\ entities = <<>>
    /\ bus = <<>>
    /\ delivered = {}

\* entry of _update: nothing emitted yet in this cycle
BeginCycle(who) ==
    /\ pc' = "fetch"
    /\ caller' = who
    /\ status' = "none"
    /\ fetched' = {}
    /\ feed_external_ids' = {}
    /\ todo' = {}
    /\ external_id' = NoId
    /\ ret' = "none"
    /\ new_entities' = <<>>
    /\ log' = <<>>
    /\ registered' = <<>>
    /\ args' = <<>>
    /\ T0' = _managed_external_ids
    /\ R0' = feed_entries
    /\ escaped' = FALSE
    /\ running' = running + 1
    /\ replayed' = FALSE
    /\ UNCHANGED <<state, last, sink>>

\* startup(): self._update()
startup ==
    /\ pc = "init"
    /\ BeginCycle("startup")

\* variant: a tick is run while the previous cycle is still fetching
TickAllowed_Overlap == pc \in {"idle", "fetch"}

\* the scheduler runs the ticks one after the other: a tick starts its
\* cycle only when no cycle is in progress
TickAllowed == pc = "idle"

\* the interval elapsed: lambda now: self._update()
Tick ==
    /\ TickAllowed
    /\ armed
    /\ BeginCycle("tick")

(* ------------------------------ _update -------------------------------- *)
\* status, feed_entries = self._feed.update() returned UPDATE_OK
FeedUpdateOk ==
    /\ pc = "fetch"
    /\ \E entries \in FetchResults :
        /\ status' = UPDATE_OK
        /\ fetched' = entries
    /\ pc' = "assign"
    /\ UNCHANGED <<state, caller, feed_external_ids, todo, external_id, ret,
                   new_entities, hist>>
    /\ UNCHANGED <<running, replayed, sink>>

\* variant: UPDATE_OK_NO_DATA falls into the else branch
FeedUpdateNoData_AsError ==
    /\ pc = "fetch"
    /\ status' = UPDATE_OK_NO_DATA
    /\ pc' = "error"
    /\ UNCHANGED <<state, caller, fetched, feed_external_ids, todo,
                   external_id, ret, new_entities, hist>>
    /\ UNCHANGED <<running, replayed, sink>>

\* ... returned UPDATE_OK_NO_DATA: the branch only logs
FeedUpdateNoData ==
    /\ pc = "fetch"
    /\ status' = UPDATE_OK_NO_DATA
    /\ pc' = "return"
    /\ UNCHANGED <<state, caller, fetched, feed_external_ids, todo,
                   external_id, ret, new_entities, hist>>
    /\ UNCHANGED <<running, replayed, sink>>

\* ... returned any other status: the else branch
FeedUpdateError ==
    /\ pc = "fetch"
    /\ status' = UPDATE_ERROR
    /\ pc' = "error"
    /\ UNCHANGED <<state, caller, fetched, feed_external_ids, todo,
                   external_id, ret, new_entities, hist>>
    /\ UNCHANGED <<running, replayed, sink>>

\* ... raised: _update has no handler, the exception leaves _update
FeedUpdateRaise ==
    /\ pc = "fetch"
    /\ status' = RAISED
    /\ escaped' = TRUE
    /\ pc' = "raise"
    /\ UNCHANGED <<state, caller, fetched, feed_external_ids, todo,
                   external_id, ret, new_entities, log, registered, args,
                   T0, R0, last>>
    /\ UNCHANGED <<running, replayed, sink>>

\* variant: the fetched entries are merged into the old dict
AssignFeedEntries_Merge ==
    /\ pc = "assign"
    /\ feed_entries' =
         [i \in KeySet(feed_entries) \cup KeySet(DictComprehension(fetched))
            |-> IF i \in KeySet(DictComprehension(fetched))
                THEN DictComprehension(fetched)[i]
                ELSE feed_entries[i]]
    /\ feed_external_ids' = KeySet(feed_entries')
    /\ pc' = UpdateSeq("assign")
    /\ UNCHANGED <<_managed_external_ids, armed, caller, status, fetched,
                   todo, external_id, ret, new_entities, hist>>
    /\ UNCHANGED <<running, replayed, sink>>

\* self.feed_entries = {...}; feed_external_ids = set(self.feed_entries)
AssignFeedEntries ==
    /\ pc = "assign"
    /\ feed_entries' = DictComprehension(fetched)
    /\ feed_external_ids' = KeySet(feed_entries')
    /\ pc' = UpdateSeq("assign")
    /\ UNCHANGED <<_managed_external_ids, armed, caller, status, fetched,
                   todo, external_id, ret, new_entities, hist>>
    /\ UNCHANGED <<running, replayed, sink>>

\* variant: every managed id is removed, then created again
RemoveIds_All(managed, feed_ids) == managed

\* self._managed_external_ids.difference(feed_external_ids)
RemoveIds(managed, feed_ids) == managed \ feed_ids

\* variant: every fetched id is signalled, the new ones included
UpdateIds_AllFetched(managed, feed_ids) == feed_ids

\* self._managed_external_ids.intersection(feed_external_ids)
UpdateIds(managed, feed_ids) == managed \cap feed_ids

\* variant: an entity is generated for every fetched id
CreateIds_AllFetched(managed, feed_ids) == feed_ids

\* feed_external_ids.difference(self._managed_external_ids)
CreateIds(managed, feed_ids) == feed_ids \ managed

\* remove_external_ids = ...; self._remove_entities(remove_external_ids)
CallRemoveEntities ==
    /\ pc = "remove"
    /\ todo' = RemoveIds(_managed_external_ids, feed_external_ids)
    /\ args' = Append(args, [fn |-> "_remove_entities", ids |-> todo'])
    /\ ret' = UpdateSeq("remove")
    /\ pc' = "remove_loop"
    /\ UNCHANGED <<state, caller, status, fetched, feed_external_ids,
                   external_id, new_entities, log, registered, T0, R0, last,
                   escaped>>
    /\ UNCHANGED <<running, replayed, sink>>

\* variant: the else branch removes only the ids missing from feed_entries
CallRemoveAll_StaleDiff ==
    /\ pc = "error"
    /\ todo' = _managed_external_ids \ KeySet(feed_entries)
    /\ args' = Append(args, [fn |-> "_remove_entities", ids |-> todo'])
    /\ ret' = "return"
    /\ pc' = "remove_loop"
    /\ UNCHANGED <<state, caller, status, fetched, feed_external_ids,
                   external_id, new_entities, log, registered, T0, R0, last,
                   escaped>>
    /\ UNCHANGED <<running, replayed, sink>>

\* the else branch: self._remove_entities(self._managed_external_ids.copy())
CallRemoveAll ==
    /\ pc = "error"
    /\ todo' = _managed_external_ids
    /\ args' = Append(args, [fn |-> "_remove_entities", ids |-> todo'])
    /\ ret' = "return"
    /\ pc' = "remove_loop"
    /\ UNCHANGED <<state, caller, status, fetched, feed_external_ids,
                   external_id, new_entities, log, registered, T0, R0, last,
                   escaped>>
    /\ UNCHANGED <<running, replayed, sink>>

\* update_external_ids = ...; self._update_entities(update_external_ids)
CallUpdateEntities ==
    /\ pc = "update"
    /\ todo' = UpdateIds(_managed_external_ids, feed_external_ids)
    /\ args' = Append(args, [fn |-> "_update_entities", ids |-> todo'])
    /\ pc' = "update_loop"
    /\ UNCHANGED <<state, caller, status, fetched, feed_external_ids,
                   external_id, ret, new_entities, log, registered, T0, R0,
                   last, escaped>>
    /\ UNCHANGED <<running, replayed, sink>>

\* create_external_ids = ...; self._generate_new_entities(...)
CallGenerateNewEntities ==
    /\ pc = "create"
    /\ todo' = CreateIds(_managed_external_ids, feed_external_ids)
    /\ args' = Append(args, [fn |-> "_generate_new_entities", ids |-> todo'])
    /\ new_entities' = <<>>
    /\ pc' = "create_loop"
    /\ UNCHANGED <<state, caller, status, fetched, feed_external_ids,
                   external_id, ret, log, registered, T0, R0, last, escaped>>
    /\ UNCHANGED <<running, replayed, sink>>

(* -------------------------- _remove_entities --------------------------- *)
\* variant: the id stays in the managed set while its signal is sent
RemoveNext_NoDiscard ==
    /\ pc = "remove_loop"
    /\ \E i \in todo :
        /\ external_id' = i
        /\ todo' = todo \ {i}
    /\ pc' = "remove_send"
    /\ UNCHANGED <<state, caller, status, fetched, feed_external_ids, ret,
                   new_entities, hist>>
    /\ UNCHANGED <<running, replayed, sink>>

\* for external_id in external_ids:
\*     self._managed_external_ids.remove(external_id)
\* set.remove raises KeyError when the id is not in the set
RemoveNext ==
    /\ pc = "remove_loop"
    /\ \E i \in todo :
        /\ external_id' = i
        /\ todo' = todo \ {i}
        /\ IF i \in _managed_external_ids
           THEN /\ _managed_external_ids' = _managed_external_ids \ {i}
                /\ pc' = "remove_send"
                /\ UNCHANGED escaped
           ELSE /\ UNCHANGED _managed_external_ids
                /\ pc' = "raise"
                /\ escaped' = TRUE
    /\ UNCHANGED <<feed_entries, armed, caller, status, fetched,
                   feed_external_ids, ret, new_entities, log, registered,
                   args, T0, R0, last>>
    /\ UNCHANGED <<running, replayed, sink>>

\*     dispatcher_send(self._hass, SIGNAL_DELETE_ENTITY.format(external_id))
RemoveSend ==
    /\ pc = "remove_send"
    /\ log' = dispatcher_send(log, SIGNAL_DELETE_ENTITY(external_id))
    /\ pc' = "remove_loop"
    /\ UNCHANGED <<state, caller, locals, registered, args, T0, R0, last,
                   escaped>>
    /\ UNCHANGED <<running, replayed, sink>>

\* the loop is exhausted: _remove_entities returns to its call site
RemoveDone ==
    /\ pc = "remove_loop"
    /\ todo = {}
    /\ pc' = ret
    /\ UNCHANGED <<state, caller, locals, hist>>
    /\ UNCHANGED <<running, replayed, sink>>

(* -------------------------- _update_entities --------------------------- *)
\* for external_id in external_ids:
\*     dispatcher_send(self._hass, SIGNAL_UPDATE_ENTITY.format(external_id))
UpdateNext ==
    /\ pc = "update_loop"
    /\ \E i \in todo :
        /\ todo' = todo \ {i}
        /\ log' = dispatcher_send(log, SIGNAL_UPDATE_ENTITY(i))
    /\ UNCHANGED <<state, pc, caller, status, fetched, feed_external_ids,
                   external_id, ret, new_entities, registered, args, T0, R0,
                   last, escaped>>
    /\ UNCHANGED <<running, replayed, sink>>

UpdateDone ==
    /\ pc = "update_loop"
    /\ todo = {}
    /\ pc' = UpdateSeq("update")
    /\ UNCHANGED <<state, caller, locals, hist>>
    /\ UNCHANGED <<running, replayed, sink>>

(* ----------------------- _generate_new_entities ------------------------ *)
\* variant: add_entities is also called for each entity on its own
CreateNext_AddEach ==
    /\ pc = "create_loop"
    /\ \E i \in todo :
        /\ todo' = todo \ {i}
        /\ new_entities' = Append(new_entities, NewEntity(i))
        /\ log' = Append(log, [kind |-> "create", id |-> i])
        /\ registered' = Append(registered,
                                [entities |-> <<NewEntity(i)>>,
                                 update_before_add |-> TRUE])
        /\ _managed_external_ids' = _managed_external_ids \cup {i}
    /\ UNCHANGED <<feed_entries, armed, pc, caller, status, fetched,
                   feed_external_ids, external_id, ret, args,
                   T0, R0, last, escaped>>
    /\ UNCHANGED <<running, replayed, sink>>

\* for external_id in external_ids:
\*     new_entity = NswRuralFireServiceLocationEvent(self, external_id)
\*     new_entities.append(new_entity)
\*     self._managed_external_ids.add(external_id)
CreateNext ==
    /\ pc = "create_loop"
    /\ \E i \in todo :
        /\ todo' = todo \ {i}
        /\ new_entities' = Append(new_entities, NewEntity(i))
        /\ log' = Append(log, [kind |-> "create", id |-> i])
        /\ _managed_external_ids' = _managed_external_ids \cup {i}
    /\ UNCHANGED <<feed_entries, armed, pc, caller, status, fetched,
                   feed_external_ids, external_id, ret, registered, args,
                   T0, R0, last, escaped>>
    /\ UNCHANGED <<running, replayed, sink>>

\* self._add_entities(new_entities, True): one call, also for an empty list
AddEntities ==
    /\ pc = "create_loop"
    /\ todo = {}
    /\ registered' = Append(registered,
                            [entities |-> new_entities,
                             update_before_add |-> TRUE])
    /\ log' = Append(log, [kind |-> "register", id |-> NoId])
    /\ pc' = UpdateSeq("create")
    /\ UNCHANGED <<state, caller, locals, args, T0, R0, last, escaped>>
    /\ UNCHANGED <<running, replayed, sink>>

(* ------------------------- end of the cycle ---------------------------- *)
\* _update returns to its caller; the frame of the cycle is dropped
Return ==
    /\ pc = "return"
    /\ last' = [status |-> status,
                ids |-> IF status = UPDATE_OK THEN feed_external_ids ELSE {}]
    /\ pc' = IF caller = "startup" THEN "arm" ELSE "idle"
    /\ status' = "none"
    /\ fetched' = {}
    /\ feed_external_ids' = {}
    /\ todo' = {}
    /\ external_id' = NoId
    /\ ret' = "none"
    /\ new_entities' = <<>>
    /\ log' = <<>>
    /\ registered' = <<>>
    /\ args' = <<>>
    /\ T0' = {}
    /\ R0' = EmptyDict
    /\ running' = running - 1
    /\ replayed' = FALSE
    /\ UNCHANGED <<state, caller, escaped, sink>>

\* an exception leaves _update.  In startup() it skips
\* _init_regular_updates(); in a tick only that job ends.
Propagate ==
    /\ pc = "raise"
    /\ last' = [status |-> RAISED, ids |-> {}]
    /\ pc' = IF caller = "startup" THEN "dead" ELSE "idle"
    /\ status' = "none"
    /\ fetched' = {}
    /\ feed_external_ids' = {}
    /\ todo' = {}
    /\ external_id' = NoId
    /\ ret' = "none"
    /\ new_entities' = <<>>
    /\ log' = <<>>
    /\ registered' = <<>>
    /\ args' = <<>>
    /\ T0' = {}
    /\ R0' = EmptyDict
    /\ running' = running - 1
    /\ replayed' = FALSE
    /\ UNCHANGED <<state, caller, escaped, sink>>

\* startup(): self._init_regular_updates() -> track_time_interval(...)
_init_regular_updates ==
    /\ pc = "arm"
    /\ armed' = TRUE
    /\ pc' = "idle"
    /\ UNCHANGED <<feed_entries, _managed_external_ids, caller, locals, hist>>
    /\ UNCHANGED <<running, replayed, sink>>

Next ==
    \/ startup
    \/ Tick
    \/ FeedUpdateOk
    \/ FeedUpdateNoData
    \/ FeedUpdateError
    \/ FeedUpdateRaise
    \/ AssignFeedEntries
    \/ CallRemoveEntities
    \/ CallRemoveAll
    \/ CallUpdateEntities
    \/ CallGenerateNewEntities
    \/ RemoveNext
    \/ RemoveSend
    \/ RemoveDone
    \/ UpdateNext
    \/ UpdateDone
    \/ CreateNext
    \/ AddEntities
    \/ Return
    \/ Propagate
    \/ _init_regular_updates

Spec == Init /\ [][Next]_vars

(* ------------------------ replay of one loop --------------------------- *)
\* the last call of one of the three loops, made again with the same ids
LastCall == args[Len(args)]

\* _remove_entities(external_ids) is executed a second time
ReplayRemove ==
    /\ pc = "remove_loop"
    /\ todo = {}
    /\ ~replayed
    /\ replayed' = TRUE
    /\ todo' = LastCall.ids
    /\ UNCHANGED <<state, pc, caller, status, fetched, feed_external_ids,
                   external_id, ret, new_entities, hist, running, sink>>

\* _update_entities(external_ids) is executed a second time
ReplayUpdate ==
    /\ pc = "update_loop"
    /\ todo = {}
    /\ ~replayed
    /\ replayed' = TRUE
    /\ todo' = LastCall.ids
    /\ UNCHANGED <<state, pc, caller, status, fetched, feed_external_ids,
                   external_id, ret, new_entities, hist, running, sink>>

\* _generate_new_entities(external_ids) is executed a second time
ReplayCreate ==
    /\ pc = "return"
    /\ status = UPDATE_OK
    /\ ~replayed
    /\ replayed' = TRUE
    /\ todo' = LastCall.ids
    /\ new_entities' = <<>>
    /\ pc' = "create_loop"
    /\ UNCHANGED <<state, caller, status, fetched, feed_external_ids,
                   external_id, ret, hist, running, sink>>

NextReplay ==
    \/ Next
    \/ ReplayRemove
    \/ ReplayUpdate
    \/ ReplayCreate

SpecReplay == Init /\ [][NextReplay]_vars

(* --------------------- consumers and the event loop -------------------- *)
(* The second specification follows the consumers.  The manager runs in a  *)
(* worker thread and only appends to the dispatcher and to the platform,   *)
(* so each cycle is taken as one step here; the event loop dispatches the  *)
(* signals and adds the entities at any later moment.                      *)

\* the sequences that enumerate a set: the order a for-loop may visit it in
Orders(S) ==
    {f \in [1 .. Cardinality(S) -> S] :
        \A j, k \in 1 .. Cardinality(S) : f[j] = f[k] => j = k}

\* a consumer as constructed by _generate_new_entities: not yet added,
\* connected to no signal
Constructed(ent) ==
    [external_id |-> ent.external_id, rev |-> ent.rev,
     st |-> "unregistered", connected |-> FALSE]

\* dispatcher_send for each id of a loop, in the order visited
RECURSIVE SendAll(_, _, _)
SendAll(l, ids, kind) ==
    IF ids = <<>> THEN l
    ELSE SendAll(dispatcher_send(l,
                    IF kind = "delete" THEN SIGNAL_DELETE_ENTITY(Head(ids))
                    ELSE SIGNAL_UPDATE_ENTITY(Head(ids))),
                 Tail(ids), kind)

\* a cycle may start: startup() once, then the ticks, one at a time
CycleAllowed ==
    /\ \/ pc = "init"
       \/ TickAllowed /\ armed
    /\ Len(bus) <= MaxPending

\* _update with UPDATE_OK, from the fetch to the call of add_entities
CycleOk ==
    /\ CycleAllowed
    /\ \E entries \in FetchResults :
        LET fe == DictComprehension(entries)
            feed_ids == KeySet(fe)
            rem == RemoveIds(_managed_external_ids, feed_ids)
            m1 == _managed_external_ids \ rem
            upd == UpdateIds(m1, feed_ids)
            cre == CreateIds(m1, feed_ids)
        IN  /\ Len(entities) + Cardinality(cre) <= MaxEnt
            /\ feed_entries' = fe
            /\ \E rs \in Orders(rem), us \in Orders(upd), cs \in Orders(cre) :
                /\ bus' = SendAll(SendAll(bus, rs, "delete"), us, "update")
                /\ entities' = entities \o
                     [k \in 1 .. Len(cs) |-> Constructed(NewEntity(cs[k]))]
            /\ _managed_external_ids' = m1 \cup cre
    /\ pc' = "idle"
    /\ armed' = TRUE
    /\ delivered' = {}
    /\ UNCHANGED <<caller, locals, hist, running, replayed>>

\* _update with UPDATE_OK_NO_DATA
CycleNoData ==
    /\ CycleAllowed
    /\ pc' = "idle"
    /\ armed' = TRUE
    /\ delivered' = {}
    /\ UNCHANGED <<feed_entries, _managed_external_ids, caller, locals, hist,
                   running, replayed, entities, bus>>

\* _update with UPDATE_ERROR: _remove_entities on a copy of the managed set
CycleError ==
    /\ CycleAllowed
    /\ \E rs \in Orders(_managed_external_ids) :
        bus' = SendAll(bus, rs, "delete")
    /\ _managed_external_ids' = {}
    /\ pc' = "idle"
    /\ armed' = TRUE
    /\ delivered' = {}
    /\ UNCHANGED <<feed_entries, caller, locals, hist, running, replayed,
                   entities>>

\* _update when the fetch raises: in startup() the trigger is never armed
CycleRaise ==
    /\ CycleAllowed
    /\ pc' = IF pc = "init" THEN "dead" ELSE "idle"
    /\ delivered' = {}
    /\ UNCHANGED <<state, caller, locals, hist, running, replayed, entities,
                   bus>>

\* variant: a missing entry clears the attributes
async_update_NoGuard(ent, fe) ==
    [ent EXCEPT !.rev = Get(fe, ent.external_id).rev]

\* async_update: feed_entry = ...feed_entries.get(self._external_id);
\* if feed_entry: self._update_from_feed(feed_entry)
async_update(ent, fe) ==
    IF Get(fe, ent.external_id) # None
    THEN [ent EXCEPT !.rev = Get(fe, ent.external_id).rev]
    ELSE ent

\* Entity.async_remove: the entity leaves the platform and the state
\* machine; nothing disconnects its two dispatcher connections
async_remove(ent) == [ent EXCEPT !.st = "retired"]

\* variant: the update callback is connected to the delete signal as well
Connections_BothOnDelete(ent) ==
    {[channel |-> SIGNAL_DELETE_ENTITY(ent.external_id),
      handler |-> "_delete_callback"],
     [channel |-> SIGNAL_DELETE_ENTITY(ent.external_id),
      handler |-> "_update_callback"],
     [channel |-> SIGNAL_UPDATE_ENTITY(ent.external_id),
      handler |-> "_update_callback"]}

\* async_added_to_hass: the two async_dispatcher_connect calls
Connections(ent) ==
    {[channel |-> SIGNAL_DELETE_ENTITY(ent.external_id),
      handler |-> "_delete_callback"],
     [channel |-> SIGNAL_UPDATE_ENTITY(ent.external_id),
      handler |-> "_update_callback"]}

\* the handlers a signal reaches: those connected to exactly that signal
Targets(signal) ==
    {t \in (1 .. Len(entities)) \X {"_delete_callback", "_update_callback"} :
        /\ entities[t[1]].connected
        /\ [channel |-> signal, handler |-> t[2]]
             \in Connections(entities[t[1]])}

\* _update_callback, then _delete_callback, when connected to the signal
Handle(e, signal) ==
    LET upd == IF <<e, "_update_callback">> \in Targets(signal)
               THEN async_update(entities[e], feed_entries)
               ELSE entities[e]
    IN  IF <<e, "_delete_callback">> \in Targets(signal)
        THEN async_remove(upd)
        ELSE upd

\* the event loop dispatches the oldest signal to the handlers connected
\* to it at that moment
Deliver ==
    /\ bus # <<>>
    /\ bus' = Tail(bus)
    /\ entities' = [e \in 1 .. Len(entities) |-> Handle(e, Head(bus))]
    /\ delivered' =
         {[ent |-> t[1], handler |-> t[2], channel |-> Head(bus),
           st |-> entities[t[1]].st,
           found |-> Get(feed_entries, entities[t[1]].external_id) # None] :
            t \in Targets(Head(bus))}
    /\ UNCHANGED <<state, pc, caller, locals, hist, running, replayed>>

\* the platform adds one entity handed to add_entities(..., True):
\* async_update first, then async_added_to_hass
AddedToHass ==
    /\ \E e \in 1 .. Len(entities) :
        /\ entities[e].st = "unregistered"
        /\ entities' =
             [entities EXCEPT ![e] =
                [async_update(entities[e], feed_entries)
                    EXCEPT !.st = "active", !.connected = TRUE]]
    /\ delivered' = {}
    /\ UNCHANGED <<state, pc, caller, locals, hist, running, replayed, bus>>

NextBus ==
    \/ CycleOk
    \/ CycleNoData
    \/ CycleError
    \/ CycleRaise
    \/ Deliver
    \/ AddedToHass

SpecBus == Init /\ [][NextBus]_vars

TypeOK ==
    /\ _managed_external_ids \subseteq Ids
    /\ DOMAIN feed_entries \subseteq Ids
    /\ armed \in BOOLEAN
    /\ todo \subseteq Ids

(* ------------------------------ claims --------------------------------- *)
\* the identifier set of the running cycle's fetch
FetchedIds == {e.external_id : e \in fetched}

\* number of emissions of one kind for one id in the running cycle
Count(kind, i) ==
    Cardinality({k \in 1 .. Len(log) : log[k] = [kind |-> kind, id |-> i]})

\* number of consumers for one id handed to add_entities in the running cycle
Consumers(i) ==
    Cardinality({p \in (1 .. Len(registered)) \X (1 .. Len(log)) :
        /\ p[2] <= Len(registered[p[1]].entities)
        /\ registered[p[1]].entities[p[2]].external_id = i})

One(b) == IF b THEN 1 ELSE 0

\* _update has executed its last statement and is about to return
CycleDone == pc = "return"

\* C1: after every completed cycle the managed set is the key set of
\* feed_entries.
C1_TrackedEqualsKeys ==
    CycleDone => _managed_external_ids = KeySet(feed_entries)

\* C2: after a cycle whose fetch returned UPDATE_ERROR, looking up any
\* identifier in feed_entries finds no entry.
C2_ErrorLeavesNoRecord ==
    (CycleDone /\ status = UPDATE_ERROR) =>
        \A i \in Ids : Get(feed_entries, i) = None

\* C3: a cycle whose fetch returned UPDATE_ERROR with N ids managed sends
\* exactly N delete signals, one per managed id, sends no update signal,
\* creates no entity, does not call add_entities, and ends with the managed
\* set empty.
C3_FailSafeClearing ==
    (CycleDone /\ status = UPDATE_ERROR) =>
        /\ Len(log) = Cardinality(T0)
        /\ \A i \in Ids : Count("delete", i) = One(i \in T0)
        /\ \A k \in 1 .. Len(log) : log[k].kind = "delete"
        /\ registered = <<>>
        /\ _managed_external_ids = {}

C3_Witness ==
    /\ CycleDone
    /\ status = UPDATE_ERROR
    /\ Cardinality(T0) = 2
    /\ Len(log) = 2

\* C4: a cycle whose fetch returned UPDATE_OK_NO_DATA leaves the managed
\* set and feed_entries as they were when the cycle began and emits
\* nothing.
C4_EmptySuccessNoOp ==
    (CycleDone /\ status = UPDATE_OK_NO_DATA) =>
        /\ _managed_external_ids = T0
        /\ feed_entries = R0
        /\ log = <<>>
        /\ registered = <<>>
        /\ args = <<>>

C4_Witness ==
    /\ CycleDone
    /\ status = UPDATE_OK_NO_DATA
    /\ T0 # {}
    /\ _managed_external_ids = T0
    /\ DOMAIN R0 # {}

\* C5: in an UPDATE_OK cycle that began with managed set T and fetched the
\* id set F, the sets passed to _remove_entities, _update_entities and
\* _generate_new_entities are T \ F, T \cap F and F \ T, pairwise disjoint,
\* and the managed set ends as F.
C5_PartitionCompleteness ==
    (CycleDone /\ status = UPDATE_OK) =>
        /\ Len(args) = 3
        /\ args[1] = [fn |-> "_remove_entities", ids |-> T0 \ FetchedIds]
        /\ args[2] = [fn |-> "_update_entities", ids |-> T0 \cap FetchedIds]
        /\ args[3] = [fn |-> "_generate_new_entities",
                      ids |-> FetchedIds \ T0]
        /\ args[1].ids \cap args[2].ids = {}
        /\ args[1].ids \cap args[3].ids = {}
        /\ args[2].ids \cap args[3].ids = {}
        /\ _managed_external_ids = FetchedIds

C5_Witness ==
    /\ CycleDone
    /\ status = UPDATE_OK
    /\ Len(args) = 3
    /\ args[1].ids # {}
    /\ args[2].ids # {}
    /\ args[3].ids # {}
    /\ _managed_external_ids = FetchedIds

\* C6: in an UPDATE_OK cycle every id of T \ F gets exactly one delete
\* signal, every id of T \cap F exactly one update signal, every id of
\* F \ T exactly one new entity, handed once to add_entities, and no id
\* gets anything else.
C6_ExactlyOnceDispatch ==
    (CycleDone /\ status = UPDATE_OK) =>
        \A i \in Ids :
            /\ Count("delete", i) = One(i \in T0 \ FetchedIds)
            /\ Count("update", i) = One(i \in T0 \cap FetchedIds)
            /\ Count("create", i) = One(i \in FetchedIds \ T0)
            /\ Consumers(i) = One(i \in FetchedIds \ T0)

C6_Witness ==
    /\ CycleDone
    /\ status = UPDATE_OK
    /\ T0 = {1, 2}
    /\ FetchedIds = {2, 3}
    /\ Count("delete", 1) = 1
    /\ Count("update", 2) = 1
    /\ Consumers(3) = 1
    /\ Len(log) = 4

\* C7: every id whose delete signal has been sent in the running cycle is
\* out of the managed set, from the moment the signal is sent.
C7_OrderBeforeVisibility ==
    \A k \in 1 .. Len(log) :
        log[k].kind = "delete" => log[k].id \notin _managed_external_ids

C7_Witness ==
    /\ pc = "remove_loop"
    /\ Len(log) = 1
    /\ log[1].kind = "delete"
    /\ log[1].id \in T0
    /\ log[1].id \notin _managed_external_ids
    /\ todo # {}

\* C8: when an UPDATE_OK cycle fetches the id set of the UPDATE_OK cycle
\* just before it, it sends one update signal per id, no delete signal,
\* creates no entity, hands no entity to add_entities, and leaves the
\* managed set as it was.
C8_IdempotentNoOpCycle ==
    (/\ CycleDone
     /\ status = UPDATE_OK
     /\ last.status = UPDATE_OK
     /\ last.ids = FetchedIds) =>
        /\ \A i \in Ids :
            /\ Count("update", i) = One(i \in FetchedIds)
            /\ Count("delete", i) = 0
            /\ Count("create", i) = 0
            /\ Consumers(i) = 0
        /\ \A c \in 1 .. Len(registered) : registered[c].entities = <<>>
        /\ _managed_external_ids = T0

C8_Witness ==
    /\ CycleDone
    /\ status = UPDATE_OK
    /\ last.status = UPDATE_OK
    /\ last.ids = FetchedIds
    /\ Cardinality(FetchedIds) = 2
    /\ Count("update", 1) + Count("update", 2) + Count("update", 3) = 2

\* position of an emission in the order remove, update, create
Rank(kind) ==
    CASE kind = "delete" -> 1
      [] kind = "update" -> 2
      [] kind = "create" -> 3
      [] kind = "register" -> 3

\* C9: within a cycle every delete signal precedes every update signal,
\* and every update signal precedes every entity creation and the call of
\* add_entities.
C9_RemoveUpdateCreateOrder ==
    \A j, k \in 1 .. Len(log) :
        j < k => Rank(log[j].kind) <= Rank(log[k].kind)

C9_Witness ==
    /\ CycleDone
    /\ status = UPDATE_OK
    /\ Len(log) = 4
    /\ log[1].kind = "delete"
    /\ log[2].kind = "update"
    /\ log[3].kind = "create"
    /\ log[4].kind = "register"

\* C10: whenever the fetch fails, by status UPDATE_ERROR or by raising, the
\* cycle sweeps every managed id, completes, and no exception leaves
\* _update.
C10_FetchFailureNeverEscapes ==
    (status \in {UPDATE_ERROR, RAISED} /\ pc \in {"return", "raise"}) =>
        /\ pc = "return"
        /\ ~escaped
        /\ _managed_external_ids = {}

\* C11: once startup() has ended, the periodic trigger is armed, whatever
\* the initial fetch did.
C11_StartupAlwaysArms ==
    pc \in {"idle", "dead"} => armed

\* number of entities for one id in one add_entities call
InBatch(batch, i) ==
    Cardinality({k \in 1 .. Len(batch) : batch[k].external_id = i})

\* C13: an UPDATE_OK cycle calls add_entities exactly once, with one new
\* entity per id of F \ T and nothing else, flagged True; no cycle calls it
\* more than once, and every id of a batch is managed when the call is
\* made.
C13_BatchRegistration ==
    /\ Len(registered) <= 1
    /\ \A c \in 1 .. Len(registered) :
        /\ registered[c].update_before_add = TRUE
        /\ \A k \in 1 .. Len(registered[c].entities) :
            registered[c].entities[k].external_id \in _managed_external_ids
    /\ (CycleDone /\ status = UPDATE_OK) =>
        /\ Len(registered) = 1
        /\ Len(registered[1].entities) = Cardinality(FetchedIds \ T0)
        /\ \A i \in Ids :
            InBatch(registered[1].entities, i) = One(i \in FetchedIds \ T0)

C13_Witness ==
    /\ CycleDone
    /\ status = UPDATE_OK
    /\ Len(registered) = 1
    /\ Len(registered[1].entities) = 2
    /\ T0 # {}

\* C14, as stated: a cycle empties a non-empty managed set only when the
\* fetch status is UPDATE_ERROR.
C14_WipeOnlyOnError ==
    (CycleDone /\ T0 # {} /\ _managed_external_ids = {}) =>
        status = UPDATE_ERROR

\* C14, amended: a cycle empties a non-empty managed set only when the
\* fetch status is UPDATE_ERROR, or UPDATE_OK with an empty collection;
\* UPDATE_OK_NO_DATA never changes the managed set.
C14_WipeOnlyOnErrorOrEmptyOk ==
    /\ (CycleDone /\ T0 # {} /\ _managed_external_ids = {}) =>
        \/ status = UPDATE_ERROR
        \/ status = UPDATE_OK /\ fetched = {}
    /\ (CycleDone /\ status = UPDATE_OK_NO_DATA) =>
        _managed_external_ids = T0

C14_Witness ==
    /\ CycleDone
    /\ status = UPDATE_OK
    /\ fetched = {}
    /\ Cardinality(T0) = 2
    /\ _managed_external_ids = {}
    /\ Count("delete", 1) + Count("delete", 2) + Count("delete", 3) = 2

\* C15: running one of the three loops a second time with the same ids
\* raises nothing, leaves the managed set as the cycle alone leaves it, and
\* hands at most one entity per id to add_entities.
C15_ReplayHarmless ==
    replayed =>
        /\ ~escaped
        /\ \A i \in Ids : Consumers(i) <= 1
        /\ (CycleDone /\ status = UPDATE_OK) =>
            _managed_external_ids = FetchedIds
        /\ (CycleDone /\ status = UPDATE_ERROR) =>
            _managed_external_ids = {}

FetchedEntry(i) ==
    IF \E e \in fetched : e.external_id = i
    THEN CHOOSE e \in fetched : e.external_id = i
    ELSE None

\* C18: after an UPDATE_OK cycle feed_entries holds exactly the ids of that
\* fetch, each mapped to the entry of that fetch; a lookup finds the new
\* entry, and finds nothing for an id of an earlier fetch only.
C18_WholesaleReplacement ==
    (CycleDone /\ status = UPDATE_OK) =>
        /\ KeySet(feed_entries) = FetchedIds
        /\ \A i \in Ids : Get(feed_entries, i) = FetchedEntry(i)

C18_Witness ==
    /\ CycleDone
    /\ status = UPDATE_OK
    /\ \E i \in KeySet(R0) : i \notin FetchedIds
    /\ \E i \in KeySet(R0) \cap FetchedIds :
        /\ R0[i] # FetchedEntry(i)
        /\ feed_entries[i] = FetchedEntry(i)

\* C12: no handler runs on a consumer that is already retired.
C12_RetiredIsTerminal ==
    \A d \in delivered : d.st # "retired"

\* nothing is in progress or pending: no signal undispatched, no entity
\* waiting to be added
Quiescent ==
    /\ pc = "idle"
    /\ bus = <<>>
    /\ \A e \in 1 .. Len(entities) : entities[e].st # "unregistered"

\* the consumers of an id that are not retired
Live(i) ==
    {e \in 1 .. Len(entities) :
        entities[e].external_id = i /\ entities[e].st # "retired"}

\* C17: at every quiescent point an id has exactly one consumer that is not
\* retired when it is managed, and none otherwise.
C17_ConsumersMatchTracked ==
    Quiescent =>
        \A i \in Ids :
            Cardinality(Live(i)) = One(i \in _managed_external_ids)

\* C19: when the update handler runs for an id that feed_entries does not
\* hold, the consumer keeps every attribute and the manager's feed_entries
\* and managed set stay as they are.
C19_DefensiveRefresh ==
    [][\A d \in delivered' :
        (/\ bus # <<>>
         /\ bus' = Tail(bus)
         /\ d.handler = "_update_callback"
         /\ ~d.found) =>
            /\ entities'[d.ent] = entities[d.ent]
            /\ feed_entries' = feed_entries
            /\ _managed_external_ids' = _managed_external_ids]_vars

C19_Witness ==
    \E d \in delivered :
        /\ d.handler = "_update_callback"
        /\ d.channel = SIGNAL_UPDATE_ENTITY(entities[d.ent].external_id)
        /\ ~d.found
        /\ entities[d.ent].rev # 0
        /\ entities[d.ent].st = "active"

\* the handler a signal of one kind is meant for
HandlerOf(kind) ==
    IF kind = "delete" THEN "_delete_callback" ELSE "_update_callback"

\* C20: a signal sent for an id runs only handlers of consumers of that id,
\* and only the handler of its own kind; no other consumer changes when it
\* is dispatched.
C20_ChannelIsolation ==
    [][(bus # <<>> /\ bus' = Tail(bus)) =>
        /\ \A d \in delivered' :
            /\ d.channel = Head(bus)
            /\ entities[d.ent].external_id = Head(bus).id
            /\ d.handler = HandlerOf(Head(bus).kind)
        /\ \A e \in 1 .. Len(entities) :
            entities[e].external_id # Head(bus).id =>
                entities'[e] = entities[e]
        /\ \A e \in 1 .. Len(entities) :
            Head(bus).kind = "update" => entities'[e].st = entities[e].st]_vars

C20_Witness ==
    /\ Len(entities) >= 2
    /\ \E d \in delivered :
        /\ d.channel.kind = "delete"
        /\ entities[d.ent].st = "retired"
        /\ \E e \in 1 .. Len(entities) :
            /\ entities[e].external_id # d.channel.id
            /\ entities[e].st = "active"

====
